---- MODULE Spec2Model ----
(***************************************************************************)
(* Logical (soft) delete for Django models: pinax.models.                  *)
(*                                                                         *)
(* The state is the content of the database (rows with a nullable          *)
(* date_removed marker and foreign keys declared CASCADE, PROTECT or       *)
(* SET_NULL), the clock, and the record of the last operation.  Every      *)
(* operation of the package (Model.delete, Model.hard_delete,              *)
(* QuerySet.delete, QuerySet.hard_delete) is one action that runs the      *)
(* whole handler: collection of the related objects, the cascade loop,     *)
(* the save of the root, the deferred field updates and the signals.       *)
(*                                                                         *)
(* Schema.  Two model classes: "Soft" (a LogicalDeleteModel subclass,      *)
(* whose default manager is LogicalDeletedManager) and "Plain" (a          *)
(* django.db.models.Model subclass with the framework's managers).  Every  *)
(* class declares three nullable foreign keys towards every class:         *)
(*   c  on_delete=CASCADE,  p  on_delete=PROTECT,  s  on_delete=SET_NULL.  *)
(* A row holds at most one target per field name.                          *)
(***************************************************************************)
EXTENDS Integers, Sequences, FiniteSets, TLC

\* Number of rows in the database.
NumRecs == 3
\* Last value of the clock: every operation takes one tick.
MaxTime == 2
\* Largest number of non-null foreign keys of one row in the initial database.
MaxRefs == 1

\* Largest number of children of one entry of an edges map drawn at will.
MaxChildren == 2

\* None: the value of a null date_removed and of a null foreign key.
NULL == 0

Recs == 1..NumRecs
FieldSet == {"c", "p", "s"}

VARIABLES
    kind,       \* row -> its model class (schema, fixed)
    can_defer,  \* connection.features.can_defer_constraint_checks (backend, fixed)
    db,         \* the database: [exists, marker, fk]
    clock,      \* the time of the last operation
    pre,        \* the database before the last operation
    last,       \* the last operation: what was called and what it did
    prev,       \* the operation before the last: [op, target, result]
    ACCESSIBLE_BY_PK    \* settings.LOGICAL_DELETE_ACCESSIBLE_BY_PK (fixed)

vars == <<kind, can_defer, db, clock, pre, last, prev, ACCESSIBLE_BY_PK>>

----------------------------------------------------------------------------
(* Sequences and sets *)

Range(s) == {s[i] : i \in DOMAIN s}

Min(S) == CHOOSE x \in S : \A y \in S : x <= y

RECURSIVE SortedSeq(_)
\* The rows of S in primary-key order (the order of an unordered query).
SortedSeq(S) ==
    IF S = {} THEN <<>>
    ELSE <<Min(S)>> \o SortedSeq(S \ {Min(S)})

----------------------------------------------------------------------------
(* Schema *)

\* Variant: the SET_NULL field is declared CASCADE.
on_delete_all_cascade(f) ==
    CASE f = "c" -> "CASCADE"
      [] f = "p" -> "PROTECT"
      [] f = "s" -> "CASCADE"

\* Variant: the PROTECT field is declared CASCADE.
on_delete_protect_cascades(f) ==
    CASE f = "c" -> "CASCADE"
      [] f = "p" -> "CASCADE"
      [] f = "s" -> "SET_NULL"

\* on_delete of the foreign key named f.
on_delete(f) ==
    CASE f = "c" -> "CASCADE"
      [] f = "p" -> "PROTECT"
      [] f = "s" -> "SET_NULL"

\* SET_NULL.lazy_sub_objs: the handler takes the query set unevaluated.
lazy_sub_objs(f) == on_delete(f) = "SET_NULL"

\* field.null of the foreign key named f: all three are declared null=True.
field_null(f) == TRUE

\* get_candidate_relations_to_delete: the (related model, field) pairs that
\* point to a class, in declaration order.
Relations ==
    <<  <<"Soft", "c">>, <<"Soft", "p">>, <<"Soft", "s">>,
        <<"Plain", "c">>, <<"Plain", "p">>, <<"Plain", "s">>  >>

----------------------------------------------------------------------------
(* Query layer: query.py, managers.py *)

\* QuerySet.filter(date_removed__isnull=isnull) over the ordered rows qs.
filter_isnull(d, qs, isnull) ==
    SelectSeq(qs, LAMBDA r : (d.marker[r] = NULL) = isnull)

\* LogicalDeleteQuerySet.deleted
deleted(d, qs) == filter_isnull(d, qs, FALSE)

\* A not_deleted that filters nothing.
not_deleted_unfiltered(d, qs) == qs

\* LogicalDeleteQuerySet.not_deleted
not_deleted(d, qs) == filter_isnull(d, qs, TRUE)

\* The stored rows of class K, the query set of a plain Manager.
base_rows(d, K) == SortedSeq({r \in Recs : d.exists[r] /\ kind[r] = K})

\* LogicalDeletedManager.all_with_deleted
all_with_deleted(d) == base_rows(d, "Soft")

\* LogicalDeletedManager.get_queryset
get_queryset(d) == not_deleted(d, all_with_deleted(d))

\* LogicalDeletedManager.only_deleted
only_deleted(d) == deleted(d, all_with_deleted(d))

\* The keyword of a lookup: pk and id name the identifier, c is the foreign
\* key of that name.
Lookups == {"pk", "id", "c"}

\* QuerySet.filter(**{key: value}) over the ordered rows qs.
filter_by(d, qs, key, value) ==
    SelectSeq(qs, LAMBDA r : IF key \in {"pk", "id"} THEN r = value
                             ELSE d.fk[r][key] = value)

\* QuerySet.get(**{key: value}): the one row that matches, or an exception.
queryset_get(d, qs, key, value) ==
    LET found == filter_by(d, qs, key, value)
    IN  CASE Len(found) = 1 -> [result |-> "ok", rows |-> found]
          [] Len(found) = 0 -> [result |-> "DoesNotExist", rows |-> <<>>]
          [] OTHER -> [result |-> "MultipleObjectsReturned", rows |-> <<>>]

\* LogicalDeletedManager.get(**{key: value})
get(d, key, value) ==
    queryset_get(d, IF ACCESSIBLE_BY_PK THEN all_with_deleted(d)
                    ELSE get_queryset(d),
                 key, value)

\* LogicalDeletedManager.filter(**{key: value})
filter(d, key, value) ==
    [result |-> "ok",
     rows |-> filter_by(d, IF key = "pk" /\ ACCESSIBLE_BY_PK
                           THEN all_with_deleted(d) ELSE get_queryset(d),
                        key, value)]

\* A default manager with no filter on the marker, as Model._base_manager is.
default_manager_unfiltered(d, K) == base_rows(d, K)

\* Model._default_manager of class K: LogicalDeletedManager for a
\* LogicalDeleteModel, the framework's Manager otherwise.
default_manager(d, K) ==
    IF K = "Soft" THEN get_queryset(d) ELSE base_rows(d, K)

\* Model._base_manager of class K: the framework's Manager for both classes
\* (LogicalDeleteModel.Meta sets no base_manager_name).
base_manager(d, K) == base_rows(d, K)

----------------------------------------------------------------------------
(* Collector: deletion.py, over django.db.models.deletion.Collector *)

\* A fresh LogicalDeleteNestedObjects: __init__.
\* edges[NULL] is edges[None], the list of the roots.  expanded lists the
\* objects whose relations collect followed, one entry per time.
new_collector ==
    [ data          |-> {},
      edges         |-> [x \in 0..NumRecs |-> <<>>],
      protected     |-> {},
      model_objs    |-> {},
      field_updates |-> <<>>,
      expanded      |-> <<>> ]

\* LogicalDeleteNestedObjects.add_edge
add_edge(col, source, target) ==
    [col EXCEPT !.edges[source] = Append(@, target)]

\* LogicalDeleteCollector.related_objects (logical: the default manager) and
\* Collector.related_objects of the framework (the base manager): the rows
\* of class K whose field f references one of objs.
related_objects(d, logical, K, f, objs) ==
    SelectSeq(IF logical THEN default_manager(d, K) ELSE base_manager(d, K),
              LAMBDA r : d.fk[r][f] \in objs)

\* Collector.add_field_update: field_updates[field, None].append(objs).
\* A batch is the query (model, field, pks) and, once evaluated, its rows.
add_field_update(col, K, f, objs, is_lazy, rows) ==
    [col EXCEPT !.field_updates =
        Append(@, [model |-> K, field |-> f, pks |-> objs,
                   lazy |-> is_lazy, cache |-> rows])]

RECURSIVE add_edges(_, _, _, _)
\* The loop at the head of LogicalDeleteNestedObjects.collect: one edge per
\* object, from the object its source_attr references, or from None.
add_edges(d, col, objs, source_attr) ==
    IF objs = <<>> THEN col
    ELSE
        LET obj == Head(objs)
            c1 == IF source_attr # ""
                  THEN add_edge(col, d.fk[obj][source_attr], obj)
                  ELSE add_edge(col, NULL, obj)
            c2 == [c1 EXCEPT !.model_objs = @ \cup {obj}]
        IN  add_edges(d, c2, Tail(objs), source_attr)

RECURSIVE collect(_, _, _, _, _), collect_related(_, _, _, _, _)
\* collect(objs, source_attr): NestedObjects.collect around Collector.collect.
\* Collector.add keeps the objects not yet in data; their relations are
\* followed once.  A ProtectedError of any level ends in col.protected.
collect(d, logical, col, objs, source_attr) ==
    LET c1 == add_edges(d, col, objs, source_attr)
        new_objs == SelectSeq(objs, LAMBDA o : o \notin c1.data)
        c2 == [c1 EXCEPT !.data = @ \cup Range(new_objs),
                         !.expanded = @ \o new_objs]
    IN  IF new_objs = <<>> THEN c1
        ELSE collect_related(d, logical, c2, new_objs, Relations)

\* The loop of Collector.collect over the relations that point to the batch.
collect_related(d, logical, col, new_objs, rels) ==
    IF rels = <<>> THEN col
    ELSE
        LET K == Head(rels)[1]
            f == Head(rels)[2]
            sub_objs == related_objects(d, logical, K, f, Range(new_objs))
            cascaded == collect(d, logical, col, sub_objs, f)
            c1 ==
                IF ~lazy_sub_objs(f) /\ sub_objs = <<>> THEN col
                ELSE CASE on_delete(f) = "CASCADE" ->
                            IF field_null(f) /\ ~can_defer
                            THEN add_field_update(cascaded, K, f, Range(new_objs),
                                                  FALSE, sub_objs)
                            ELSE cascaded
                       [] on_delete(f) = "PROTECT" ->
                            [col EXCEPT !.protected = @ \cup Range(sub_objs)]
                       [] on_delete(f) = "SET_NULL" ->
                            add_field_update(col, K, f, Range(new_objs), TRUE, <<>>)
        IN  collect_related(d, logical, c1, new_objs, Tail(rels))

\* utils.get_collector: a collector that has collected [obj].
get_collector(d, obj) == collect(d, TRUE, new_collector, <<obj>>, "")

----------------------------------------------------------------------------
(* Nested presentation: deletion.py _nested / nested, utils.py flatten *)

\* A nested list is a sequence of items; an item is an object or a list.
Obj(r) == [isList |-> FALSE, obj |-> r, items |-> <<>>]
List(s) == [isList |-> TRUE, obj |-> NULL, items |-> s]

RECURSIVE nested_children(_, _, _), nested_obj(_, _, _)
\* A _nested whose seen set is handed down to the children only, not on to
\* the objects that come after.
nested_obj_seen_on_path(edges, obj, seen) ==
    IF obj \in seen THEN [ret |-> <<>>, seen |-> seen]
    ELSE
        LET sub == nested_children(edges, edges[obj], seen \cup {obj})
        IN  [ret  |-> IF sub.ret # <<>>
                      THEN <<Obj(obj), List(sub.ret)>>
                      ELSE <<Obj(obj)>>,
             seen |-> seen]

\* LogicalDeleteNestedObjects._nested: [ret, seen].
nested_obj(edges, obj, seen) ==
    IF obj \in seen THEN [ret |-> <<>>, seen |-> seen]
    ELSE
        LET sub == nested_children(edges, edges[obj], seen \cup {obj})
        IN  [ret  |-> IF sub.ret # <<>>
                      THEN <<Obj(obj), List(sub.ret)>>
                      ELSE <<Obj(obj)>>,
             seen |-> sub.seen]

\* The loop over the children (and, in nested, over the roots): extend.
nested_children(edges, children, seen) ==
    IF children = <<>> THEN [ret |-> <<>>, seen |-> seen]
    ELSE
        LET first == nested_obj(edges, Head(children), seen)
            rest == nested_children(edges, Tail(children), first.seen)
        IN  [ret |-> first.ret \o rest.ret, seen |-> rest.seen]

\* LogicalDeleteNestedObjects.nested (format_callback=None).
nested(col) == nested_children(col.edges, col.edges[NULL], {}).ret

\* Variant: the nested lists are dropped instead of being flattened.
flatten_shallow(obj, elem) ==
    LET tops == SelectSeq(elem.items, LAMBDA e : ~e.isList /\ e.obj # obj)
    IN  [i \in DOMAIN tops |-> tops[i].obj]

RECURSIVE flatten(_, _)
\* get_related_objects.flatten: the objects of a nested list in order,
\* without obj itself.
flatten(obj, elem) ==
    IF elem.isList
    THEN IF elem.items = <<>> THEN <<>>
         ELSE flatten(obj, Head(elem.items))
              \o flatten(obj, List(Tail(elem.items)))
    ELSE IF obj # elem.obj THEN <<elem.obj>> ELSE <<>>

----------------------------------------------------------------------------
(* Persistence: the framework's save, update and delete *)

\* An in-memory model instance: the row as it was when it was loaded.
instance(d, r) == [pk |-> r, marker |-> d.marker[r], fk |-> d.fk[r]]

\* Referential integrity, which the database enforces on every foreign key.
integrity(d) ==
    \A r \in Recs : \A f \in FieldSet :
        (d.exists[r] /\ d.fk[r][f] # NULL) => d.exists[d.fk[r][f]]

\* Model.save(): UPDATE of every field by primary key, INSERT when no row
\* was updated; the database refuses a dangling foreign key.
save(d, inst) ==
    LET d1 == [d EXCEPT !.exists[inst.pk] = TRUE,
                        !.marker[inst.pk] = inst.marker,
                        !.fk[inst.pk] = inst.fk]
    IN  IF integrity(d1) THEN [ok |-> TRUE, db |-> d1]
        ELSE [ok |-> FALSE, db |-> d]

\* UPDATE ... SET f = NULL on the rows of S.
set_null(d, S, f) ==
    [d EXCEPT !.fk = [r \in Recs |->
        IF r \in S /\ d.exists[r] THEN [d.fk[r] EXCEPT ![f] = NULL] ELSE d.fk[r]]]

\* The key of a batch in field_updates: (field, None), the field being the
\* one model declares towards the class of the referenced objects.
key_of(b) == <<b.model, b.field, kind[CHOOSE x \in b.pks : TRUE]>>

RECURSIVE keys_of(_, _)
\* The keys of field_updates in insertion order (dict order).
keys_of(fus, seen) ==
    IF fus = <<>> THEN <<>>
    ELSE IF key_of(Head(fus)) \in seen THEN keys_of(Tail(fus), seen)
    ELSE <<key_of(Head(fus))>> \o keys_of(Tail(fus), seen \cup {key_of(Head(fus))})

\* The rows of a batch: its result cache, or the query evaluated now.
rows_of(d, logical, b) ==
    IF b.lazy THEN Range(related_objects(d, logical, b.model, b.field, b.pks))
    ELSE Range(b.cache)

\* models.py lines 82-89: update_batch([obj.pk for obj in instances], ...),
\* instances being the last batch the loop of lines 71-78 visited.
update_batch_pks(d, instances_list) ==
    rows_of(d, TRUE, instances_list[Len(instances_list)])

\* Collector.delete of the framework: update_batch({obj.pk for obj in objs}).
framework_batch_pks(d, logical, instances_list) ==
    UNION {rows_of(d, logical, instances_list[i]) :
              i \in {j \in DOMAIN instances_list : ~instances_list[j].lazy}}

\* One entry of field_updates applied: the unevaluated query sets combined
\* into one UPDATE, the loaded objects into one update_batch.
\* [db, rows]: rows are the rows written.
apply_entry(d, logical, own, instances_list) ==
    LET f == instances_list[1].field
        K == instances_list[1].model
        updates == SelectSeq(instances_list, LAMBDA b : b.lazy)
        objs == SelectSeq(instances_list, LAMBDA b : ~b.lazy /\ b.cache # <<>>)
        combined == UNION {rows_of(d, logical, updates[i]) : i \in DOMAIN updates}
        d1 == IF updates # <<>> THEN set_null(d, combined, f) ELSE d
        batch == IF own THEN update_batch_pks(d1, instances_list)
                 ELSE framework_batch_pks(d1, logical, instances_list)
        written == {r \in batch : kind[r] = K}
        d2 == IF objs # <<>> THEN set_null(d1, written, f) ELSE d1
    IN  [db |-> d2,
         rows |-> (IF updates # <<>> THEN combined ELSE {})
                  \cup (IF objs # <<>> THEN written ELSE {})]

RECURSIVE apply_field_updates(_, _, _, _, _)
\* The loop over field_updates.items(): models.py lines 67-89 (own), and the
\* same loop in Collector.delete of the framework.
apply_field_updates(d, logical, own, fus, keys) ==
    IF keys = <<>> THEN [db |-> d, applied |-> <<>>]
    ELSE
        LET instances_list == SelectSeq(fus, LAMBDA b : key_of(b) = Head(keys))
            one == apply_entry(d, logical, own, instances_list)
            rest == apply_field_updates(one.db, logical, own, fus, Tail(keys))
        IN  [db |-> rest.db,
             applied |-> <<[field |-> instances_list[1].field,
                            batches |-> [i \in DOMAIN instances_list |->
                                 rows_of(d, TRUE, instances_list[i])],
                            rows |-> one.rows]>> \o rest.applied]

\* Collector.delete of the framework on the collector col: the field
\* updates, then the physical delete of the collected rows, in one
\* transaction (transaction.atomic); a ProtectedError of collect comes first.
delete_collected(d, logical, col) ==
    LET upd == apply_field_updates(d, logical, FALSE, col.field_updates,
                                   keys_of(col.field_updates, {}))
        d2 == [upd.db EXCEPT !.exists = [r \in Recs |-> @[r] /\ r \notin col.data]]
    IN  IF col.protected # {}
        THEN [result |-> "ProtectedError", db |-> d, protected |-> col.protected]
        ELSE IF ~integrity(d2)
        THEN [result |-> "IntegrityError", db |-> d, protected |-> {}]
        ELSE [result |-> "ok", db |-> d2, protected |-> {}]

\* Collector.collect + Collector.delete: the physical delete of objs and of
\* what cascades from them.
\* logical: LogicalDeleteCollector; otherwise the framework's Collector.
collector_delete(d, logical, objs) ==
    delete_collected(d, logical, collect(d, logical, new_collector, objs, ""))

----------------------------------------------------------------------------
(* Soft delete: models.py LogicalDeleteModel.delete, utils.py *)

Ev(e, r) == [e |-> e, r |-> r]

\* timezone.now() during the operation that follows the state at clock.
now == clock + 1

\* Variant: the protected objects are never looked at.
has_protected_unchecked(collector) == FALSE

\* utils.get_related_objects raises ProtectedError when the collector holds
\* protected objects: if collector.protected.
has_protected(collector) == collector.protected # {}

\* utils.get_related_objects when it does not raise:
\* flatten(collector.nested()).
get_related_objects(obj, collector) == flatten(obj, List(nested(collector)))

\* A stamp that keeps a marker that is already set.
stamped_once(inst, t) ==
    IF inst.marker # NULL THEN inst ELSE [inst EXCEPT !.marker = t]

\* A stamp that clears a marker that is already set.
stamped_toggle(inst, t) ==
    [inst EXCEPT !.marker = IF inst.marker = NULL THEN t ELSE NULL]

\* setattr(self, FIELD_NAME, timezone.now()) on the in-memory instance.
stamped(inst, t) == [inst EXCEPT !.marker = t]

\* delete(_collect_related=False) of a collected object: pre_softdelete,
\* the marker, save(), post_softdelete.
delete_uncollected(d, inst, t) ==
    LET sv == save(d, stamped(inst, t))
    IN  IF sv.ok
        THEN [result |-> "ok", db |-> sv.db,
              events |-> <<Ev("pre_softdelete", inst.pk), Ev("save", inst.pk),
                           Ev("post_softdelete", inst.pk)>>]
        ELSE [result |-> "IntegrityError", db |-> d,
              events |-> <<Ev("pre_softdelete", inst.pk)>>]

\* obj.delete() of line 60 on an object that is not a LogicalDeleteModel:
\* hd is what the framework's delete did.
plain_delete(hd, obj) ==
    [result |-> hd.result, db |-> hd.db,
     events |-> IF hd.result = "ok" THEN <<Ev("delete", obj)>> ELSE <<>>]

\* One pass of the loop of models.py lines 54-60 over obj, an object the
\* collector loaded from the database d0.
delete_one(d, d0, obj, t) ==
    IF kind[obj] = "Soft"
    THEN IF d0.marker[obj] = NULL
         THEN delete_uncollected(d, instance(d0, obj), t)
         ELSE [result |-> "ok", db |-> d, events |-> <<>>]
    ELSE plain_delete(collector_delete(d, FALSE, <<obj>>), obj)

\* What a run of calls did so far (acc), followed by what the next call did
\* (out).
Step(acc, out) ==
    [result |-> out.result, db |-> out.db, events |-> acc.events \o out.events]

\* A run of calls that starts on the database d.
Start(d) == [result |-> "ok", db |-> d, events |-> <<>>]

RECURSIVE delete_loop(_, _, _, _)
\* for obj in to_delete: acc is what the passes made so far did; the first
\* exception ends the loop.
delete_loop(acc, d0, to_delete, t) ==
    IF to_delete = <<>> \/ acc.result # "ok" THEN acc
    ELSE delete_loop(Step(acc, delete_one(acc.db, d0, Head(to_delete), t)),
                     d0, Tail(to_delete), t)

\* models.py lines 62-91, after the loop over to_delete returned loop: the
\* marker and save() of self, the field updates, post_softdelete.
delete_self(inst, t, collector, to_delete, loop) ==
    LET self == inst.pk
        sv == save(loop.db, stamped(inst, t))
        upd == apply_field_updates(sv.db, TRUE, TRUE, collector.field_updates,
                                   keys_of(collector.field_updates, {}))
        pre_ev == <<Ev("pre_softdelete", self), Ev("collect", self)>>
        failed == [collector |-> collector, to_delete |-> to_delete,
                   applied |-> <<>>]
    IN  IF loop.result # "ok"
        THEN failed @@ [result |-> loop.result, db |-> loop.db,
                        events |-> pre_ev \o loop.events]
        ELSE IF ~sv.ok
        THEN failed @@ [result |-> "IntegrityError", db |-> loop.db,
                        events |-> pre_ev \o loop.events]
        ELSE [collector |-> collector, to_delete |-> to_delete,
              applied |-> upd.applied, result |-> "ok", db |-> upd.db,
              events |-> pre_ev \o loop.events \o <<Ev("save", self)>>
                         \o [i \in DOMAIN upd.applied |->
                                Ev("update", NULL)]
                         \o <<Ev("post_softdelete", self)>>]

\* models.py lines 44-91 with the collector of line 48: pre_softdelete,
\* get_related_objects, the loop over to_delete, and what follows it.
delete_related(d, inst, t, collector) ==
    LET to_delete == get_related_objects(inst.pk, collector)
    IN  IF has_protected(collector)
        THEN [collector |-> collector, to_delete |-> <<>>, applied |-> <<>>,
              result |-> "ProtectedError", db |-> d,
              events |-> <<Ev("pre_softdelete", inst.pk),
                           Ev("collect", inst.pk)>>]
        ELSE delete_self(inst, t, collector, to_delete,
                         delete_loop(Start(d), d, to_delete, t))

\* LogicalDeleteModel.delete(hard_delete=False, _collect_related=True) of the
\* instance inst at time t.
soft_delete(d, inst, t) ==
    delete_related(d, inst, t, get_collector(d, inst.pk))

\* LogicalDeleteModel.hard_delete: super().delete(), the framework's delete
\* with the framework's Collector.
hard_delete(d, self) == collector_delete(d, FALSE, <<self>>)

----------------------------------------------------------------------------
(* Batch delete: query.py LogicalDeleteQuerySet *)

\* The query sets the batch operations are called on.
BatchViews == {"all_with_deleted", "get_queryset"}

rows_of_view(d, view) ==
    CASE view = "all_with_deleted" -> all_with_deleted(d)
      [] view = "get_queryset" -> get_queryset(d)
      [] view = "only_deleted" -> only_deleted(d)

RECURSIVE queryset_loop(_, _, _, _)
\* for obj in self.all(): obj.delete(), on the instances loaded from d0;
\* acc is what the calls made so far did.
queryset_loop(acc, d0, objs, t) ==
    IF objs = <<>> \/ acc.result # "ok" THEN acc
    ELSE queryset_loop(Step(acc, soft_delete(acc.db, instance(d0, Head(objs)), t)),
                       d0, Tail(objs), t)

\* A batch delete that does not look at the limit and the offset.
queryset_delete_unasserted(d, view, sliced, t) ==
    queryset_loop(Start(d), d, rows_of_view(d, view), t)

\* LogicalDeleteQuerySet.delete(hard_delete=False); sliced: a limit or an
\* offset is set, so that query.can_filter() is false.
queryset_delete(d, view, sliced, t) ==
    IF sliced THEN [result |-> "AssertionError", db |-> d, events |-> <<>>]
    ELSE queryset_loop(Start(d), d, rows_of_view(d, view), t)

\* LogicalDeleteQuerySet.hard_delete
queryset_hard_delete(d, view, sliced) ==
    IF sliced THEN [result |-> "AssertionError", db |-> d, events |-> <<>>]
    ELSE LET hd == collector_delete(d, TRUE, rows_of_view(d, view))
         IN  [result |-> hd.result, db |-> hd.db, events |-> <<>>]

----------------------------------------------------------------------------
(* The state machine *)

\* The foreign keys of one row: at most MaxRefs of them are set.
FkChoices ==
    {x \in [FieldSet -> 0..NumRecs] :
        Cardinality({f \in FieldSet : x[f] # NULL}) <= MaxRefs}

NoOp ==
    [op |-> "none", target |-> NULL, view |-> "", sliced |-> FALSE,
     result |-> "none", events |-> <<>>, collector |-> new_collector,
     to_delete |-> <<>>, applied |-> <<>>, rows |-> <<>>, nested |-> <<>>]

\* Any database of NumRecs rows, at most one of them of the plain class:
\* every row is stored, a LogicalDeleteModel row is active or was removed at
\* time 1, no row references itself.  The setting has its default; no
\* delete reads it.
Init ==
    /\ kind \in [Recs -> {"Soft", "Plain"}]
    /\ Cardinality({r \in Recs : kind[r] = "Plain"}) <= 1
    /\ can_defer \in BOOLEAN
    /\ \E marker \in [Recs -> {NULL, 1}], fk \in [Recs -> FkChoices] :
        /\ \A r \in Recs : kind[r] = "Plain" => marker[r] = NULL
        /\ \A r \in Recs : \A f \in FieldSet : fk[r][f] # r
        /\ db = [exists |-> [r \in Recs |-> TRUE], marker |-> marker, fk |-> fk]
    /\ clock = 1
    /\ pre = db
    /\ last = NoOp
    /\ prev = [op |-> "none", target |-> NULL, result |-> "none"]
    /\ ACCESSIBLE_BY_PK = TRUE

\* What every operation does to the history.
Record(op, target, view, sliced, out) ==
    /\ clock' = now
    /\ pre' = db
    /\ db' = out.db
    /\ prev' = [op |-> last.op, target |-> last.target, result |-> last.result]
    /\ last' = [op |-> op, target |-> target, view |-> view, sliced |-> sliced,
                result |-> out.result, events |-> out.events,
                collector |-> out.collector, to_delete |-> out.to_delete,
                applied |-> out.applied,
                rows |-> IF "rows" \in DOMAIN out THEN out.rows ELSE <<>>,
                nested |-> IF "nested" \in DOMAIN out THEN out.nested ELSE <<>>]
    /\ UNCHANGED <<kind, can_defer, ACCESSIBLE_BY_PK>>

NoCollector == [collector |-> new_collector, to_delete |-> <<>>, applied |-> <<>>]

\* obj.delete() on a LogicalDeleteModel instance just loaded.
SoftDelete(r) ==
    /\ clock < MaxTime
    /\ db.exists[r] /\ kind[r] = "Soft"
    /\ Record("delete", r, "", FALSE, soft_delete(db, instance(db, r), now))

\* obj.delete(hard_delete=True) on a LogicalDeleteModel instance just loaded.
HardDelete(r) ==
    /\ clock < MaxTime
    /\ db.exists[r] /\ kind[r] = "Soft"
    /\ LET hd == hard_delete(db, r)
       IN  Record("hard_delete", r, "", FALSE,
                  NoCollector @@ [result |-> hd.result, db |-> hd.db,
                                  events |-> <<>>])

\* queryset.delete()
QuerySetDelete(view, sliced) ==
    /\ clock < MaxTime
    /\ LET out == queryset_delete(db, view, sliced, now)
       IN  Record("qs_delete", NULL, view, sliced, NoCollector @@ out)

\* queryset.delete(hard_delete=True)
QuerySetHardDelete(view, sliced) ==
    /\ clock < MaxTime
    /\ LET out == queryset_hard_delete(db, view, sliced)
       IN  Record("qs_hard_delete", NULL, view, sliced, NoCollector @@ out)

Next ==
    \/ \E r \in Recs : SoftDelete(r)
    \/ \E r \in Recs : HardDelete(r)
    \/ \E view \in BatchViews, sliced \in BOOLEAN : QuerySetDelete(view, sliced)
    \/ \E view \in BatchViews, sliced \in BOOLEAN : QuerySetHardDelete(view, sliced)

Spec == Init /\ [][Next]_vars

\* Two operations in a row, from a database where every row is active and
\* row 1 references nothing.
InitTwice ==
    /\ kind \in [Recs -> {"Soft", "Plain"}]
    /\ Cardinality({r \in Recs : kind[r] = "Plain"}) <= 1
    /\ can_defer \in BOOLEAN
    /\ \E fk \in [Recs -> FkChoices] :
        /\ \A f \in FieldSet : fk[1][f] = NULL
        /\ \A r \in Recs : \A f \in FieldSet : fk[r][f] # r
        /\ db = [exists |-> [r \in Recs |-> TRUE],
                 marker |-> [r \in Recs |-> NULL], fk |-> fk]
    /\ clock = 0
    /\ pre = db
    /\ last = NoOp
    /\ prev = [op |-> "none", target |-> NULL, result |-> "none"]
    /\ ACCESSIBLE_BY_PK = TRUE

SpecTwice == InitTwice /\ [][Next]_vars

\* Model.objects.get(**{key: value})
ManagerGet(key, value) ==
    /\ clock < MaxTime
    /\ Record("get", value, key, FALSE,
              NoCollector @@ get(db, key, value) @@ [db |-> db, events |-> <<>>])

\* Model.objects.filter(**{key: value})
ManagerFilter(key, value) ==
    /\ clock < MaxTime
    /\ Record("filter", value, key, FALSE,
              NoCollector @@ filter(db, key, value) @@ [db |-> db, events |-> <<>>])

NextLookup ==
    \/ \E key \in Lookups, value \in Recs : ManagerGet(key, value)
    \/ \E key \in Lookups, value \in Recs : ManagerFilter(key, value)

\* One lookup through the manager of a LogicalDeleteModel, for either value
\* of the setting, on any database of LogicalDeleteModel rows.
InitLookup ==
    /\ kind = [r \in Recs |-> "Soft"]
    /\ can_defer = TRUE
    /\ \E marker \in [Recs -> {NULL, 1}], fk \in [Recs -> FkChoices] :
        /\ \A r \in Recs : \A f \in FieldSet : fk[r][f] # r
        /\ db = [exists |-> [r \in Recs |-> TRUE], marker |-> marker, fk |-> fk]
    /\ clock = 1
    /\ pre = db
    /\ last = NoOp
    /\ prev = [op |-> "none", target |-> NULL, result |-> "none"]
    /\ ACCESSIBLE_BY_PK \in BOOLEAN

SpecLookup == InitLookup /\ [][NextLookup]_vars

\* The lists of children an entry of an edges map may hold.
ChildLists == UNION {[1..n -> Recs] : n \in 0..MaxChildren}

\* collector.nested() and the flattening of utils.py on a collector that
\* holds the edges map of last.collector.
Nested ==
    /\ clock < MaxTime
    /\ Record("nested", NULL, "", FALSE,
              [collector |-> last.collector,
               nested    |-> nested(last.collector),
               to_delete |-> flatten(NULL, List(nested(last.collector))),
               applied |-> <<>>, result |-> "ok", db |-> db, events |-> <<>>])

NextNested == Nested

\* A collector with any edges map over the rows: the entry of None holds
\* the roots, every other entry the children of a row; a row may be the
\* child of several rows, of itself or of one of its descendants.
InitNested ==
    /\ kind = [r \in Recs |-> "Soft"]
    /\ can_defer = TRUE
    /\ db = [exists |-> [r \in Recs |-> TRUE],
             marker |-> [r \in Recs |-> NULL],
             fk |-> [r \in Recs |-> [f \in FieldSet |-> NULL]]]
    /\ clock = 1
    /\ pre = db
    /\ \E edges \in [0..NumRecs -> ChildLists] :
          last = [NoOp EXCEPT !.collector.edges = edges]
    /\ prev = [op |-> "none", target |-> NULL, result |-> "none"]
    /\ ACCESSIBLE_BY_PK = TRUE

SpecNested == InitNested /\ [][NextNested]_vars

----------------------------------------------------------------------------
(* What the properties speak of *)

\* The last operation was a root-level soft delete: obj.delete().
SoftDeleted == last.op = "delete"

\* A row its default manager returns: a plain row, or an active one.
Visible(d, r) == kind[r] = "Plain" \/ d.marker[r] = NULL

RECURSIVE Closure(_, _, _)
\* S and the rows of d that reach S through a chain of CASCADE references;
\* with visible, through rows that are all visible.
Closure(d, S, visible) ==
    LET more == {r \in Recs \ S : /\ d.exists[r]
                                  /\ d.fk[r]["c"] \in S
                                  /\ (visible => Visible(d, r))}
    IN  IF more = {} THEN S ELSE Closure(d, S \cup more, visible)

\* root and every row that reaches it through CASCADE references.
CascadeReachable(d, root) == Closure(d, {root}, FALSE)

\* root and every row that reaches it through CASCADE references from rows
\* that are all visible.
CascadeVisible(d, root) == Closure(d, {root}, TRUE)

\* No row holds a PROTECT reference.
NoProtect(d) == \A r \in Recs : d.exists[r] => d.fk[r]["p"] = NULL

----------------------------------------------------------------------------
(* C1 *)

\* C1: when the collect of a root-level soft delete finds a protected
\* object, the delete fails with ProtectedError and the database is what it
\* was before the call: every marker, every row, every foreign key.
C1_ProtectedIsAtomic ==
    (SoftDeleted /\ last.collector.protected # {})
        => (last.result = "ProtectedError" /\ db = pre)

\* A soft delete whose collect went into a CASCADE child and found a
\* protected object.
C1_Witness ==
    /\ SoftDeleted
    /\ last.collector.protected # {}
    /\ Cardinality(last.collector.data) >= 2
    /\ last.result = "ProtectedError"

----------------------------------------------------------------------------
(* C2 *)

\* C2 as stated: without PROTECT references, after a soft delete that
\* returns, root and every soft-deletable row that reaches root through
\* CASCADE references has a marker, whatever the markers were before.
C2_AllReachableRemoved ==
    (SoftDeleted /\ last.result = "ok" /\ NoProtect(pre))
        => \A r \in CascadeReachable(pre, last.target) :
              kind[r] = "Soft" => db.marker[r] # NULL

\* C2 amended: the rows that reach root through CASCADE references from rows
\* that were all visible before the call (plain, or active) are removed:
\* each has a marker, or is no longer stored.
C2_VisibleReachableRemoved ==
    (SoftDeleted /\ last.result = "ok" /\ NoProtect(pre))
        => \A r \in CascadeVisible(pre, last.target) :
              \/ ~db.exists[r]
              \/ kind[r] = "Soft" /\ db.marker[r] # NULL

\* A soft delete that went two levels down and set the markers there.
C2_Witness ==
    /\ SoftDeleted /\ last.result = "ok" /\ NoProtect(pre)
    /\ \E x, y \in Recs :
        /\ pre.fk[x]["c"] = last.target /\ pre.fk[y]["c"] = x
        /\ pre.marker[x] = NULL /\ pre.marker[y] = NULL
        /\ db.marker[x] = clock /\ db.marker[y] = clock
        /\ db.marker[last.target] = clock

----------------------------------------------------------------------------
(* C3 *)

\* C3: without PROTECT references, a soft delete changes nothing of a row
\* that is not root and does not reach root through CASCADE references,
\* but for a SET_NULL field that referenced such a row, which may be nulled.
C3_Frame ==
    (SoftDeleted /\ NoProtect(pre))
        => \A r \in Recs \ CascadeReachable(pre, last.target) :
              /\ db.marker[r] = pre.marker[r]
              /\ db.exists[r] = pre.exists[r]
              /\ db.fk[r]["c"] = pre.fk[r]["c"]
              /\ db.fk[r]["p"] = pre.fk[r]["p"]
              /\ \/ db.fk[r]["s"] = pre.fk[r]["s"]
                 \/ /\ db.fk[r]["s"] = NULL
                    /\ pre.fk[r]["s"] \in CascadeReachable(pre, last.target)

\* A soft delete that nulled the SET_NULL field of a row outside the cascade
\* and left that row active.
C3_Witness ==
    /\ SoftDeleted /\ last.result = "ok" /\ NoProtect(pre)
    /\ Cardinality(CascadeReachable(pre, last.target)) >= 2
    /\ \E r \in Recs \ CascadeReachable(pre, last.target) :
        /\ pre.fk[r]["s"] \in CascadeReachable(pre, last.target)
        /\ db.fk[r]["s"] = NULL
        /\ kind[r] = "Soft" /\ db.marker[r] = NULL

----------------------------------------------------------------------------
(* C4 *)

\* C4: after a soft delete that returns, every row of every batch of every
\* entry of field_updates has the entry's field null and the marker it had
\* before the call.
C4_FieldUpdatesApplied ==
    (SoftDeleted /\ last.result = "ok")
        => \A i \in DOMAIN last.applied :
              \A j \in DOMAIN last.applied[i].batches :
                 \A z \in last.applied[i].batches[j] :
                    /\ db.fk[z][last.applied[i].field] = NULL
                    /\ db.marker[z] = pre.marker[z]

----------------------------------------------------------------------------
(* C5 *)

\* The rows the collector holds as targets of an edge.
EdgeTargets(col) == UNION {Range(col.edges[x]) : x \in DOMAIN col.edges}

\* C5 as stated: every stored row that references a collected row through
\* PROTECT is in protected, and every one that references it through CASCADE
\* is in edges and in model_objs, whatever its marker.
C5_SeesRemoved ==
    SoftDeleted
        => \A z \in Recs :
              /\ (pre.exists[z] /\ pre.fk[z]["p"] \in last.collector.data)
                    => z \in last.collector.protected
              /\ (pre.exists[z] /\ pre.fk[z]["c"] \in last.collector.data)
                    => (z \in EdgeTargets(last.collector)
                        /\ z \in last.collector.model_objs)

\* C5 amended: the collector holds exactly the referencing rows that their
\* default manager returns, the plain rows and the active ones; a removed
\* row is neither in protected nor in edges or model_objs (unless it is the
\* root the collect was given).
C5_SeesVisibleOnly ==
    SoftDeleted
        => \A z \in Recs :
              /\ z \in last.collector.protected
                    <=> /\ pre.exists[z] /\ Visible(pre, z)
                        /\ pre.fk[z]["p"] \in last.collector.data
              /\ z \in EdgeTargets(last.collector) \ {last.target}
                    <=> /\ pre.exists[z] /\ Visible(pre, z) /\ z # last.target
                        /\ pre.fk[z]["c"] \in last.collector.data
              /\ z \in EdgeTargets(last.collector)
                    <=> z \in last.collector.model_objs

\* A collect that passed over a removed row referencing the root through
\* PROTECT and over a removed row referencing it through CASCADE.
C5_Witness ==
    /\ SoftDeleted
    /\ \E x, y \in Recs :
        /\ pre.fk[x]["p"] = last.target /\ pre.marker[x] # NULL
        /\ pre.fk[y]["c"] = last.target /\ pre.marker[y] # NULL
        /\ x \notin last.collector.protected
        /\ y \notin last.collector.model_objs
    /\ last.result = "ok"

----------------------------------------------------------------------------
(* C6 *)

\* C6: when every row that references root or a row that reaches root
\* through CASCADE references by a PROTECT reference is removed, the soft
\* delete does not raise ProtectedError and sets the marker of root.
C6_RemovedDoesNotProtect ==
    (/\ SoftDeleted
     /\ \A z \in Recs :
           (pre.exists[z]
             /\ pre.fk[z]["p"] \in CascadeReachable(pre, last.target))
              => (kind[z] = "Soft" /\ pre.marker[z] # NULL))
        => (last.result # "ProtectedError"
            /\ db.marker[last.target] = clock)

----------------------------------------------------------------------------
(* C7 *)

\* C7: in every state, for every stored LogicalDeleteModel row the hard
\* delete raises ProtectedError exactly when the soft delete does, and so
\* do the two batch deletes over the same query set.
C7_SameProtection ==
    /\ \A r \in Recs :
          (db.exists[r] /\ kind[r] = "Soft")
             => (hard_delete(db, r).result = "ProtectedError"
                   <=> soft_delete(db, instance(db, r), now).result
                          = "ProtectedError")
    /\ \A view \in BatchViews :
          queryset_hard_delete(db, view, FALSE).result = "ProtectedError"
             <=> queryset_delete(db, view, FALSE, now).result = "ProtectedError"

----------------------------------------------------------------------------
(* C8 *)

\* The LogicalDeleteModel rows of d that are stored with a marker.
Removed(d) == {r \in Recs : d.exists[r] /\ kind[r] = "Soft" /\ d.marker[r] # NULL}

\* The last two operations were root-level soft deletes of the same row, and
\* the first of them returned.
SoftDeletedTwice ==
    /\ prev.op = "delete" /\ prev.result = "ok"
    /\ last.op = "delete" /\ last.target = prev.target

\* C8: a second soft delete of the same root right after a first one that
\* returned leaves the set of removed rows as it was, leaves every other row
\* with the marker the first call gave it, deletes and notifies no
\* descendant, and sends pre_softdelete for root, overwrites the marker of
\* root with the time of the second call and sends post_softdelete for root.
C8_SecondCallRestampsRootOnly ==
    SoftDeletedTwice
        => /\ last.result = "ok"
           /\ Removed(db) = Removed(pre)
           /\ \A r \in Recs \ {last.target} :
                 /\ db.exists[r] = pre.exists[r]
                 /\ db.marker[r] = pre.marker[r]
           /\ last.to_delete = <<>>
           /\ \A i \in DOMAIN last.events :
                 last.events[i].r \in {last.target, NULL}
           /\ Head(last.events) = Ev("pre_softdelete", last.target)
           /\ last.events[Len(last.events)] = Ev("post_softdelete", last.target)
           /\ db.marker[last.target] = clock
           /\ pre.marker[last.target] = clock - 1

\* A second call on a root whose CASCADE child the first call removed: the
\* child keeps the time of the first call, root has the time of the second.
C8_Witness ==
    /\ SoftDeletedTwice
    /\ last.result = "ok"
    /\ \E r \in Recs \ {last.target} :
          /\ db.exists[r] /\ kind[r] = "Soft"
          /\ db.fk[r]["c"] = last.target
          /\ db.marker[r] = clock - 1
    /\ db.marker[last.target] = clock

----------------------------------------------------------------------------
(* C9 *)

\* C9: no step takes a stored row with a marker to a stored row without
\* one: after any operation the row still has a marker, or it is no longer
\* stored.
C9_RemovedIsAbsorbing ==
    [][\A r \in Recs :
          (db.exists[r] /\ db.marker[r] # NULL)
             => (~db'.exists[r] \/ db'.marker[r] # NULL)]_vars

\* A batch delete that returned after it stamped again a row that was
\* removed before, next to a row that was active.
C9_Witness ==
    /\ last.op = "qs_delete" /\ last.result = "ok"
    /\ \E r \in Recs :
          /\ pre.marker[r] # NULL
          /\ db.exists[r] /\ db.marker[r] = clock
          /\ db.marker[r] # pre.marker[r]
    /\ \E r \in Recs : pre.marker[r] = NULL /\ db.marker[r] = clock

----------------------------------------------------------------------------
(* C10 *)

\* C10: in every state the active view holds no row with a marker, the
\* removed view holds no row without one, and the all view holds every
\* stored LogicalDeleteModel row once: the rows of the active view and the
\* rows of the removed view, which share none.
C10_ViewsPartition ==
    LET active == get_queryset(db)
        removed == only_deleted(db)
        all == all_with_deleted(db)
    IN  /\ \A i \in DOMAIN active : db.marker[active[i]] = NULL
        /\ \A i \in DOMAIN removed : db.marker[removed[i]] # NULL
        /\ deleted(db, active) = <<>>
        /\ not_deleted(db, removed) = <<>>
        /\ Range(active) \cap Range(removed) = {}
        /\ Range(all) = Range(active) \cup Range(removed)
        /\ Range(all) = {r \in Recs : db.exists[r] /\ kind[r] = "Soft"}
        /\ Len(all) = Cardinality(Range(all))
        /\ Len(active) + Len(removed) = Len(all)

\* A state after a soft delete that returned where a row is active, a row
\* is removed and a row was physically deleted.
C10_Witness ==
    /\ SoftDeleted /\ last.result = "ok"
    /\ get_queryset(db) # <<>>
    /\ only_deleted(db) # <<>>
    /\ \E r \in Recs : ~db.exists[r]

----------------------------------------------------------------------------
(* C11 *)

\* The last operation was a lookup through the manager.
LookedUp == last.op \in {"get", "filter"}

\* C11: a lookup by identifier returns the row whatever its marker when
\* ACCESSIBLE_BY_PK is set and only an active row when it is not; a lookup
\* whose criteria do not name the identifier never returns a row with a
\* marker, whatever the setting.
C11_FlagOnlyForPk ==
    LookedUp
        => IF last.view \in {"pk", "id"}
           THEN IF ACCESSIBLE_BY_PK \/ db.marker[last.target] = NULL
                THEN last.rows = <<last.target>>
                ELSE last.rows = <<>>
           ELSE \A i \in DOMAIN last.rows : db.marker[last.rows[i]] = NULL

----------------------------------------------------------------------------
(* C12 *)

\* C12: a batch delete, soft or hard, on a query set with a limit or an
\* offset fails with AssertionError, leaves the database as it was and
\* sends no signal.
C12_SlicedFailsFirst ==
    (last.op \in {"qs_delete", "qs_hard_delete"} /\ last.sliced)
        => /\ last.result = "AssertionError"
           /\ db = pre
           /\ last.events = <<>>

\* A batch delete refused on a sliced query set whose rows the same call
\* without the slice would have removed.
C12_Witness ==
    /\ last.op = "qs_delete" /\ last.sliced
    /\ last.result = "AssertionError"
    /\ get_queryset(pre) # <<>>
    /\ queryset_delete(pre, last.view, FALSE, clock).result = "ok"
    /\ queryset_delete(pre, last.view, FALSE, clock).db # pre

----------------------------------------------------------------------------
(* C13 *)

RECURSIVE ReachableFrom(_, _)
\* S and the rows that the rows of S reach along the edges.
ReachableFrom(edges, S) ==
    LET more == UNION {Range(edges[x]) : x \in S} \ S
    IN  IF more = {} THEN S ELSE ReachableFrom(edges, S \cup more)

RECURSIVE Preorder(_, _, _)
\* The rows in the order a depth-first walk first meets them: stack holds
\* the rows still to visit, the children of a row in front of what was
\* there before.
Preorder(edges, stack, seen) ==
    IF stack = <<>> THEN <<>>
    ELSE IF Head(stack) \in seen THEN Preorder(edges, Tail(stack), seen)
    ELSE <<Head(stack)>>
         \o Preorder(edges, edges[Head(stack)] \o Tail(stack),
                     seen \cup {Head(stack)})

RECURSIVE WellNested(_)
\* In a nested list every list stands right after an object, is not empty
\* and is well nested.
WellNested(items) ==
    \A i \in DOMAIN items :
        items[i].isList
            => /\ i > 1 /\ ~items[i - 1].isList
               /\ items[i].items # <<>>
               /\ WellNested(items[i].items)

\* C13: on any edges map nested() returns; its flattened output holds every
\* row reachable from the roots once, in the order a depth-first walk over
\* the entries in insertion order first meets them; a list of children
\* follows a row only when it is not empty; the edges map is left as it was.
C13_NestedOnce ==
    /\ [](last.op = "nested"
            => LET edges == last.collector.edges
                   reach == ReachableFrom(edges, Range(edges[NULL]))
               IN  /\ Range(last.to_delete) = reach
                   /\ Len(last.to_delete) = Cardinality(reach)
                   /\ last.to_delete = Preorder(edges, edges[NULL], {})
                   /\ WellNested(last.nested))
    /\ [][last'.op = "nested"
            => last'.collector.edges = last.collector.edges]_vars

\* nested() on a diamond with a cycle: rows 1 and 2 are roots, row 3 is a
\* child of both, row 1 a child of row 3.
C13_Witness ==
    /\ last.op = "nested"
    /\ last.collector.edges[NULL] = <<1, 2>>
    /\ last.collector.edges[1] = <<3>>
    /\ last.collector.edges[2] = <<3>>
    /\ last.collector.edges[3] = <<1>>
    /\ last.nested = <<Obj(1), List(<<Obj(3)>>), Obj(2)>>
    /\ last.to_delete = <<1, 3, 2>>

----------------------------------------------------------------------------
(* C14 *)

\* The places of the event e of row r among the events of the last call.
Places(e, r) == {i \in DOMAIN last.events : last.events[i] = Ev(e, r)}

\* The LogicalDeleteModel rows, other than root, that the last soft delete
\* collected along CASCADE references.
Descendants ==
    {x \in CascadeVisible(pre, last.target) \ {last.target} : kind[x] = "Soft"}

\* C14: in a root-level soft delete pre_softdelete of root comes first,
\* before the collect; when the collect found no protected object, every
\* collected descendant gets pre_softdelete, its marker saved and
\* post_softdelete once each, in this order and before the marker of root is
\* saved, every field update comes after the save of root, and
\* post_softdelete of root is the last event.  When the call fails with
\* ProtectedError, pre_softdelete of root was sent and post_softdelete of
\* root is not.
C14_EventOrder ==
    SoftDeleted
        => /\ Places("pre_softdelete", last.target) = {1}
           /\ Places("collect", last.target) = {2}
           /\ last.result = "ProtectedError"
                 => Places("post_softdelete", last.target) = {}
           /\ last.result # "ProtectedError"
                 => /\ \A x \in Descendants :
                          \E i, j, k \in DOMAIN last.events :
                             /\ Places("pre_softdelete", x) = {i}
                             /\ Places("save", x) = {j}
                             /\ Places("post_softdelete", x) = {k}
                             /\ i < j /\ j < k
                             /\ \A m \in Places("save", last.target) : k < m
                    /\ Cardinality(Places("save", last.target)) = 1
                    /\ \A u \in Places("update", NULL) :
                          \A m \in Places("save", last.target) : m < u
                    /\ Places("post_softdelete", last.target)
                          = {Len(last.events)}

----------------------------------------------------------------------------
(* C15 *)

\* C15: the collect of a soft delete returns on every graph, cyclic ones
\* included, and raises nothing: it follows the relations of each collected
\* row once, the collected rows are root and the rows that reach it through
\* CASCADE references, and every row that references a collected row
\* through PROTECT is in protected and is not collected for it.
C15_CollectOnce ==
    SoftDeleted
        => LET col == last.collector
           IN  /\ Places("collect", last.target) = {2}
               /\ Len(col.expanded) = Cardinality(Range(col.expanded))
               /\ Range(col.expanded) = col.data
               /\ col.data = CascadeVisible(pre, last.target)
               /\ col.protected =
                     {z \in Recs : /\ pre.exists[z] /\ Visible(pre, z)
                                   /\ pre.fk[z]["p"] \in col.data}
               /\ \A z \in col.protected \cap col.data :
                     z = last.target \/ pre.fk[z]["c"] \in col.data

\* A collect over a cycle of CASCADE references with a protected object one
\* level down: rows 1 and 2 reference each other, row 3 protects row 2.
C15_Witness ==
    /\ SoftDeleted /\ last.target = 1
    /\ pre.fk[2]["c"] = 1 /\ pre.fk[1]["c"] = 2 /\ pre.fk[3]["p"] = 2
    /\ \A r \in Recs : Visible(pre, r)
    /\ last.collector.expanded = <<1, 2>>
    /\ last.collector.protected = {3}
    /\ last.result = "ProtectedError"

----------------------------------------------------------------------------
(* C16 *)

\* C16: after a soft delete every LogicalDeleteModel row that was stored
\* before the call is still stored, and a row that is no longer stored is a
\* row of the plain class that reached root through CASCADE references.
C16_NoPhysicalRemoval ==
    SoftDeleted
        => \A r \in Recs :
              /\ (pre.exists[r] /\ kind[r] = "Soft") => db.exists[r]
              /\ (pre.exists[r] /\ ~db.exists[r])
                    => (kind[r] = "Plain"
                        /\ r \in CascadeReachable(pre, last.target))

====
